---- MODULE Spec2Model ----
(***************************************************************************)
(* Model of src/fetch_subsidy.py: fetch -> filter -> categorize -> render  *)
(* -> thumbnail -> publish, and of the tab/card script of the rendered     *)
(* page.                                                                   *)
(*                                                                         *)
(* Text.  A Python str is modelled as a sequence of characters.  Each      *)
(* Hangul syllable, digit or blank of the source is one character, written *)
(* here in Revised Romanization ("cheong" "nyeon" is the two-character     *)
(* string of line 28, " " is the blank).  Distinct characters of the       *)
(* source have distinct spellings, so `in` (substring) is contiguous       *)
(* subsequence.                                                            *)
(***************************************************************************)
EXTENDS Integers, Sequences, FiniteSets, TLC

VARIABLES
    run,            \* the entry point this behaviour runs
    pc,             \* the position in it
    \* ---- categorize_service called on one record
    service,        \* the record passed to categorize_service
    cat_id,         \* its return value
    \* ---- filter_local_services called on one sequence
    svc_in,         \* the argument
    svc_out         \* the return value
    ,
    \* ---- module globals read from the environment (lines 14-17)
    API_KEY, WP_URL, WP_USER, WP_APP_PASSWORD,
    \* ---- fetch_all_services
    max_pages,      \* its parameter
    page,           \* the loop variable
    result,         \* what fetch_service_list returned for `page`
    all_services,   \* the accumulator, and the return value
    returned,       \* history: every value fetch_service_list returned, in order
    \* ---- main
    services,       \* filter_local_services(all_services)
    html_content,   \* generate_html(services)
    thumb_made,     \* how create_thumbnail ended
    thumb_path,     \* what it returned
    upload_result,  \* what upload_media returned, when called
    thumb_id,
    published,      \* what post_to_wordpress returned
    post_calls,     \* history: the arguments of every post_to_wordpress call
    \* ---- the world
    http,           \* history: every HTTP request issued, in order
    writes,         \* history: every file written, in order
    \* ---- the rendered page (the script of lines 375-500)
    DATA,           \* for each category, the number of its items in the page's DATA
    currentTab,     \* line 380
    dom_tabs,       \* the .tab elements, in document order (their data-id)
    dom_contents,   \* the .content elements, in document order (their category)
    tab_active,     \* the .tab elements of class active
    content_active, \* the .content elements of class active
    dom_cards,      \* the .card elements: <<category, index>>
    card_open,      \* the .card elements of class open
    clicked_tab,    \* history: the tab last clicked, None before any
    last_click      \* history: the last handler run, and what it found

catVars    == <<service, cat_id>>
filterVars == <<svc_in, svc_out>>
envVars    == <<API_KEY, WP_URL, WP_USER, WP_APP_PASSWORD>>
fetchVars  == <<max_pages, page, result, all_services, returned>>
mainVars   == <<services, html_content, thumb_made, thumb_path, upload_result, thumb_id, published,
                post_calls>>
worldVars  == <<http, writes>>
pipeVars   == <<envVars, fetchVars, mainVars, worldVars>>
pageVars   == <<DATA, currentTab, dom_tabs, dom_contents, tab_active, content_active,
                dom_cards, card_open, clicked_tab, last_click>>
vars       == <<run, pc, catVars, filterVars, pipeVars, pageVars>>

None       == "None"
NoDocument == [doc |-> "none"]   \* html_content before line 674
NotCalled  == << >>              \* upload_result before upload_media is called

(***************************************************************************)
(* Python str operations                                                   *)
(***************************************************************************)
\* `kw in text` for two str: kw is a contiguous run of text
IsSubstring(kw, text) ==
    \E i \in 0..(Len(text) - Len(kw)) : SubSeq(text, i + 1, i + Len(kw)) = kw

\* f"{name} {target} {content}"
JoinFields(name, target, content) == name \o <<" ">> \o target \o <<" ">> \o content

(***************************************************************************)
(* CATEGORIES (lines 22-72), in the dict's insertion order, which is the   *)
(* order CATEGORIES.items() iterates in.                                   *)
(***************************************************************************)
CATEGORIES == <<
    [id |-> "youth", keywords |-> <<
        <<"cheong", "nyeon">>, <<"cheong", "so", "nyeon">>, <<"dae", "hak", "saeng">>,
        <<"chwi", "eop">>, <<"il", "ja", "ri">>, <<"chang", "eop">>,
        <<"2", "0", "dae">>, <<"3", "0", "dae">> >>],
    [id |-> "senior", keywords |-> <<
        <<"no", "in">>, <<"eo", "reu", "sin">>, <<"gyeong", "ro">>,
        <<"gi", "cho", "yeon", "geum">>, <<"jang", "gi", "yo", "yang">>,
        <<"dol", "bom">>, <<"6", "5", "se">>, <<"go", "ryeong">> >>],
    [id |-> "family", keywords |-> <<
        <<"im", "san", "bu">>, <<"chul", "san">>, <<"yuk", "a">>, <<"yang", "yuk">>,
        <<"a", "dong">>, <<"yeong", "yu", "a">>, <<"eo", "rin", "i">>,
        <<"im", "sin">>, <<"sin", "saeng", "a">> >>],
    [id |-> "disabled", keywords |-> <<
        <<"jang", "ae", "in">>, <<"jang", "ae">>, <<"hwal", "dong", "ji", "won">>,
        <<"bo", "jo", "gi", "gi">> >>],
    [id |-> "lowincome", keywords |-> <<
        <<"gi", "cho", "saeng", "hwal">>, <<"cha", "sang", "wi">>,
        <<"gin", "geup", "bok", "ji">>, <<"jeo", "so", "deuk">>,
        <<"gi", "cho", "su", "geup">>, <<"saeng", "gye", "geup", "yeo">> >>],
    [id |-> "business", keywords |-> <<
        <<"so", "sang", "gong", "in">>, <<"ja", "yeong", "eop">>, <<"so", "gi", "eop">>,
        <<"chang", "eop", "ji", "won">>, <<"sa", "eop", "ja">> >>],
    [id |-> "etc", keywords |-> << >>] >>

\* CATEGORY_ORDER (line 74)
CATEGORY_ORDER == <<"youth", "senior", "family", "disabled", "lowincome", "business", "etc">>

(***************************************************************************)
(* categorize_service (lines 144-158)                                      *)
(***************************************************************************)
\* svc.get(key, ''): a record is a function from its keys; an absent key reads ''
\* keys: "name" = service name, "target" = support target, "content" = support
\* content, "org_name" = owning organization, "org_type" = organization type
Get(svc, key) == IF key \in DOMAIN svc THEN svc[key] ELSE << >>

\* a JSON null of the response body: the key is present and .get returns None
Null == <<"<null>">>

\* f"{value}" (line 149): None is formatted as the text None
FormatField(v) == IF v = Null THEN <<"N", "o", "n", "e">> ELSE v

\* f"{name}{target}{content}": the fields run together
SearchTextNoBlank(svc) ==
    FormatField(Get(svc, "name")) \o FormatField(Get(svc, "target"))
        \o FormatField(Get(svc, "content"))

\* lines 146-149: the search text of a record
SearchText(svc) ==
    JoinFields(FormatField(Get(svc, "name")), FormatField(Get(svc, "target")),
               FormatField(Get(svc, "content")))

\* lines 154-156: the inner loop, from keyword k on; TRUE when it returns
RECURSIVE KeywordLoop(_, _, _)
KeywordLoop(keywords, k, text) ==
    IF k > Len(keywords) THEN FALSE
    ELSE IF IsSubstring(keywords[k], text) THEN TRUE
    ELSE KeywordLoop(keywords, k + 1, text)

\* the outer loop run from the last entry of CATEGORIES back to the first
RECURSIVE CategoryLoopBack(_, _)
CategoryLoopBack(c, text) ==
    IF c < 1 THEN "etc"
    ELSE IF CATEGORIES[c].id = "etc" THEN CategoryLoopBack(c - 1, text)
    ELSE IF KeywordLoop(CATEGORIES[c].keywords, 1, text) THEN CATEGORIES[c].id
    ELSE CategoryLoopBack(c - 1, text)

CategoryLoopReversed(c, text) == CategoryLoopBack(Len(CATEGORIES), text)

\* lines 151-158: the outer loop, from entry c of CATEGORIES on
RECURSIVE CategoryLoop(_, _)
CategoryLoop(c, text) ==
    IF c > Len(CATEGORIES) THEN "etc"
    ELSE IF CATEGORIES[c].id = "etc" THEN CategoryLoop(c + 1, text)
    ELSE IF KeywordLoop(CATEGORIES[c].keywords, 1, text) THEN CATEGORIES[c].id
    ELSE CategoryLoop(c + 1, text)

categorize_service(svc) == CategoryLoop(1, SearchText(svc))

(***************************************************************************)
(* filter_local_services (lines 121-141)                                   *)
(***************************************************************************)
YEOJU       == <<"yeo", "ju">>                                     \* line 131
GYEONGGIDO  == <<"gyeong", "gi", "do">>                            \* line 133
CENTRAL_GOV == <<"jung", "ang", "haeng", "jeong", "gi", "gwan">>   \* line 135
PUBLIC_ORG  == <<"gong", "gong", "gi", "gwan">>                    \* line 135

\* the chain with the regional token cut short to its first two characters
is_local_short_token(svc) ==
    LET org_name == Get(svc, "org_name")
        org_type == Get(svc, "org_type")
    IN  IF IsSubstring(YEOJU, org_name) THEN TRUE
        ELSE IF IsSubstring(SubSeq(GYEONGGIDO, 1, Len(GYEONGGIDO) - 1), org_name) THEN TRUE
        ELSE IF org_type \in {CENTRAL_GOV, PUBLIC_ORG} THEN TRUE
        ELSE FALSE

\* lines 126-136: the if/elif chain that sets is_local
is_local(svc) ==
    LET org_name == Get(svc, "org_name")
        org_type == Get(svc, "org_type")
    IN  IF IsSubstring(YEOJU, org_name) THEN TRUE
        ELSE IF IsSubstring(GYEONGGIDO, org_name) THEN TRUE
        ELSE IF org_type \in {CENTRAL_GOV, PUBLIC_ORG} THEN TRUE
        ELSE FALSE

\* line 131: `'yeoju' in org_name` raises TypeError when org_name is None;
\* `org_type in [...]` (line 135) is a list membership and is False for None
is_local_raises(svc) == Get(svc, "org_name") = Null

\* lines 125-139: the loop raises at the first record whose test raises
FilterLoopRaises(svcs) == \E i \in 1..Len(svcs) : is_local_raises(svcs[i])

\* lines 125-139: the loop from index i on, with the accumulator `filtered`
RECURSIVE FilterLoop(_, _, _)
FilterLoop(svcs, i, filtered) ==
    IF i > Len(svcs) THEN filtered
    ELSE FilterLoop(svcs, i + 1,
                    IF is_local(svcs[i]) THEN Append(filtered, svcs[i])
                    ELSE filtered)

filter_local_services(svcs) == FilterLoop(svcs, 1, << >>)

(***************************************************************************)
(* Inputs of the function-level specifications                             *)
(***************************************************************************)
MaxNameWords == 2   \* a service name is at most this many words run together
MaxServices  == 2   \* filter_local_services is given at most this many records

Absent == <<"<absent>">>  \* marks a key the record does not have

\* the record with the given fields, a field equal to Absent being left out
MakeRecord(fields) ==
    [k \in {f \in DOMAIN fields : fields[f] # Absent} |-> fields[k]]

RECURSIVE Concat(_)
Concat(words) == IF words = << >> THEN << >> ELSE Head(words) \o Concat(Tail(words))

\* the name of the scenario of the categorizer: youth, work, "support money"
EXAMPLE_NAME == <<"cheong", "nyeon", " ", "chwi", "eop", " ", "ji", "won", "geum">>

\* words and fragments of words a service name is made of
NameWords == {
    <<"cheong">>, <<"nyeon">>, <<"chang", "eop">>, <<"ji", "won">>, <<"no", "in">>,
    <<"jang", "ae">>, <<"in">>, <<"jeo", "so", "deuk">>, <<"sa", "eop", "ja">>,
    <<"chul", "san">>, <<"geum">>, <<" ">> }

Names ==
    {EXAMPLE_NAME} \cup
    UNION { {Concat(ws) : ws \in [1..n -> NameWords]} : n \in 0..MaxNameWords }

\* values of the target and content fields
OtherFields == { Absent, << >>, <<"nyeon">>, <<"no", "in">>, <<"ji", "won">>,
                 <<"eop", "ja">> }

\* owning-organization names: Yeoju city hall, Seoul city hall, Gyeonggi
\* provincial office, "Gyeonggi-do Yeoju-si", "Gyeonggi" alone, '', absent
OrgNames == {
    <<"yeo", "ju", "si", "cheong">>, <<"seo", "ul", "si", "cheong">>,
    <<"gyeong", "gi", "do", "cheong">>,
    <<"gyeong", "gi", "do", " ", "yeo", "ju", "si">>,
    <<"gyeong", "gi">>, << >>, Absent }

LOCAL_GOV == <<"ji", "bang", "ja", "chi", "dan", "che">>   \* a type not in line 135

OrgTypes == { CENTRAL_GOV, PUBLIC_ORG, LOCAL_GOV, Absent }

OrgRecords ==
    { MakeRecord([org_name |-> n, org_type |-> t]) : n \in OrgNames, t \in OrgTypes }

CategorizeIdle == service = << >> /\ cat_id = None
FilterIdle     == svc_in = << >> /\ svc_out = << >>
PipelineIdle ==
    /\ API_KEY = "" /\ WP_URL = "" /\ WP_USER = "" /\ WP_APP_PASSWORD = ""
    /\ max_pages = 0 /\ page = 0 /\ result = << >> /\ all_services = << >>
    /\ returned = << >>
    /\ services = << >> /\ html_content = NoDocument /\ thumb_made = None /\ thumb_path = None
    /\ upload_result = NotCalled /\ thumb_id = None /\ published = None
    /\ post_calls = << >>
    /\ http = << >> /\ writes = << >>

NoClick == [op |-> "none", tab |-> "", card |-> <<"", 0>>, wasOpen |-> FALSE, others |-> {}]

PageIdle ==
    /\ DATA = << >> /\ currentTab = None
    /\ dom_tabs = << >> /\ dom_contents = << >>
    /\ tab_active = {} /\ content_active = {}
    /\ dom_cards = {} /\ card_open = {}
    /\ clicked_tab = None /\ last_click = NoClick

(***************************************************************************)
(* SpecCategorize: categorize_service applied to one record                *)
(***************************************************************************)
InitCategorize ==
    /\ run = "categorize_service"
    /\ pc = "call"
    /\ \E n \in Names, t \in OtherFields, c \in OtherFields :
            service = MakeRecord([name |-> n, target |-> t, content |-> c])
    /\ cat_id = None
    /\ FilterIdle
    /\ PipelineIdle
    /\ PageIdle

Categorize ==
    /\ run = "categorize_service"
    /\ pc = "call"
    /\ cat_id' = categorize_service(service)
    /\ pc' = "return"
    /\ UNCHANGED <<run, service, filterVars, pipeVars, pageVars>>

NextCategorize == Categorize

SpecCategorize == InitCategorize /\ [][NextCategorize]_vars

(***************************************************************************)
(* SpecFilter: filter_local_services applied to one sequence               *)
(***************************************************************************)
InitFilter ==
    /\ run = "filter_local_services"
    /\ pc = "call"
    /\ \E n \in 0..MaxServices : svc_in \in [1..n -> OrgRecords]
    /\ svc_out = << >>
    /\ CategorizeIdle
    /\ PipelineIdle
    /\ PageIdle

Filter ==
    /\ run = "filter_local_services"
    /\ pc = "call"
    /\ svc_out' = filter_local_services(svc_in)
    /\ pc' = "return"
    /\ UNCHANGED <<run, svc_in, catVars, pipeVars, pageVars>>

NextFilter == Filter

SpecFilter == InitFilter /\ [][NextFilter]_vars

(***************************************************************************)
(* The pipeline: what the server may answer                                *)
(***************************************************************************)
MaxPerPage == 1   \* a page of the server holds at most this many records
MaxTotal   == 2   \* the server reports a totalCount of at most this
MaxPagesIn == 3   \* fetch_all_services, called directly, gets max_pages up to this

SEOUL_CITY_HALL == <<"seo", "ul", "si", "cheong">>
YEOJU_CITY_HALL == <<"yeo", "ju", "si", "cheong">>

\* the records the server serves: a youth programme of Yeoju city hall, a
\* senior programme of Seoul city hall, an uncategorized programme of a central
\* agency that names no organization
ApiRecords == {
    [name |-> EXAMPLE_NAME, target |-> << >>, content |-> << >>,
     org_name |-> YEOJU_CITY_HALL, org_type |-> LOCAL_GOV],
    [name |-> <<"no", "in">>, target |-> << >>, content |-> << >>,
     org_name |-> SEOUL_CITY_HALL, org_type |-> LOCAL_GOV],
    [name |-> <<"geum">>, target |-> << >>, content |-> << >>,
     org_type |-> CENTRAL_GOV] }

PageData == UNION { [1..n -> ApiRecords] : n \in 0..MaxPerPage }

\* Python truthiness of a dict
IsEmptyDict(d) == DOMAIN d = {}
EmptyDict == [k \in {} |-> 0]

(***************************************************************************)
(* fetch_service_list (lines 77-96) and fetch_all_services (lines 99-118)  *)
(***************************************************************************)
GetRequest(p) == [req |-> "GET serviceList", arg |-> p]

\* lines 101-103: the accumulator is created and the loop entered
FetchAllStart ==
    /\ pc = "call_fetch_all"
    /\ all_services' = << >>
    /\ page' = 1
    /\ pc' = "loop"
    /\ UNCHANGED <<run, catVars, filterVars, pageVars, envVars, max_pages, result, returned,
                   mainVars, worldVars>>

\* line 103: range(1, max_pages + 1) is exhausted
LoopExhausted ==
    /\ pc = "loop"
    /\ page > max_pages
    /\ pc' = "fetched"
    /\ UNCHANGED <<run, catVars, filterVars, pageVars, pipeVars>>

\* line 104 with lines 79-81: no API key, no request, {}
FetchNoKey ==
    /\ pc = "loop"
    /\ page <= max_pages
    /\ API_KEY = ""
    /\ result' = EmptyDict
    /\ returned' = Append(returned, result')
    /\ pc' = "got_page"
    /\ UNCHANGED <<run, catVars, filterVars, pageVars, envVars, max_pages, page, all_services,
                   mainVars, worldVars>>

\* line 104 with lines 83-96: one GET; requests.get, raise_for_status or json()
\* raises and {} is returned
FetchFails ==
    /\ pc = "loop"
    /\ page <= max_pages
    /\ API_KEY # ""
    /\ http' = Append(http, GetRequest(page))
    /\ result' = EmptyDict
    /\ returned' = Append(returned, result')
    /\ pc' = "got_page"
    /\ UNCHANGED <<run, catVars, filterVars, pageVars, envVars, max_pages, page, all_services,
                   mainVars, writes>>

\* line 104 with lines 83-93: one GET; the decoded body is returned.  The body
\* has 'data' and 'totalCount', or 'data' alone, or neither
FetchAnswers ==
    /\ pc = "loop"
    /\ page <= max_pages
    /\ API_KEY # ""
    /\ http' = Append(http, GetRequest(page))
    /\ \/ \E d \in PageData, t \in 0..MaxTotal : result' = [data |-> d, totalCount |-> t]
       \/ \E d \in PageData : result' = [data |-> d]
       \/ result' = [msg |-> "error"]
    /\ returned' = Append(returned, result')
    /\ pc' = "got_page"
    /\ UNCHANGED <<run, catVars, filterVars, pageVars, envVars, max_pages, page, all_services,
                   mainVars, writes>>

\* line 114: result.get('totalCount', 0)
TotalCount(res) == IF "totalCount" \in DOMAIN res THEN res.totalCount ELSE 0

\* the loop body never ending the loop on the count
StopOnTotalNever(count, res) == FALSE

\* lines 114-115: the accumulated count has reached the reported total
StopOnTotal(count, res) == count >= TotalCount(res)

\* the loop body going on to the next page after a failed one
LoopBodySkipsFailedPage ==
    /\ pc = "got_page"
    /\ IF IsEmptyDict(result) \/ "data" \notin DOMAIN result
       THEN pc' = "loop" /\ page' = page + 1 /\ UNCHANGED all_services
       ELSE IF result.data = << >>
       THEN pc' = "fetched" /\ UNCHANGED <<page, all_services>>
       ELSE /\ all_services' = all_services \o result.data
            /\ IF StopOnTotal(Len(all_services'), result)
               THEN pc' = "fetched" /\ UNCHANGED page
               ELSE pc' = "loop" /\ page' = page + 1
    /\ UNCHANGED <<run, catVars, filterVars, pageVars, envVars, max_pages, result, returned,
                   mainVars, worldVars>>

\* lines 105-116: the loop body after the call
LoopBody ==
    /\ pc = "got_page"
    /\ IF IsEmptyDict(result) \/ "data" \notin DOMAIN result
       THEN pc' = "fetched" /\ UNCHANGED <<page, all_services>>
       ELSE IF result.data = << >>
       THEN pc' = "fetched" /\ UNCHANGED <<page, all_services>>
       ELSE /\ all_services' = all_services \o result.data
            /\ IF StopOnTotal(Len(all_services'), result)
               THEN pc' = "fetched" /\ UNCHANGED page
               ELSE pc' = "loop" /\ page' = page + 1
    /\ UNCHANGED <<run, catVars, filterVars, pageVars, envVars, max_pages, result, returned,
                   mainVars, worldVars>>

(***************************************************************************)
(* SpecFetch: fetch_all_services called with a max_pages of the caller's   *)
(***************************************************************************)
API_KEYS == {"", "service-key"}

InitFetch ==
    /\ run = "fetch_all_services"
    /\ pc = "call_fetch_all"
    /\ CategorizeIdle /\ FilterIdle /\ PageIdle
    /\ API_KEY \in API_KEYS
    /\ WP_URL = "" /\ WP_USER = "" /\ WP_APP_PASSWORD = ""
    /\ max_pages \in 1..MaxPagesIn
    /\ page = 0 /\ result = << >> /\ all_services = << >> /\ returned = << >>
    /\ services = << >> /\ html_content = NoDocument /\ thumb_made = None /\ thumb_path = None
    /\ upload_result = NotCalled /\ thumb_id = None /\ published = None
    /\ post_calls = << >>
    /\ http = << >> /\ writes = << >>

NextFetch ==
    \/ FetchAllStart
    \/ LoopExhausted
    \/ FetchNoKey
    \/ FetchFails
    \/ FetchAnswers
    \/ LoopBody

SpecFetch == InitFetch /\ [][NextFetch]_vars

(***************************************************************************)
(* generate_html (lines 161-504): the data the page is built from          *)
(***************************************************************************)
MAX_ITEMS   == 15    \* line 179
MAX_TARGET  == 100   \* line 186
MAX_CONTENT == 200   \* line 187
MAX_METHOD  == 100   \* line 188

ALWAYS_OPEN == <<"sang", "si">>   \* line 189: the period shown when none is given

\* s[:n]
Truncate(s, n) == SubSeq(s, 1, IF Len(s) < n THEN Len(s) ELSE n)

\* lines 167-170: each record is appended to the list of its category
RECURSIVE CategorizeLoop(_, _, _)
CategorizeLoop(svcs, i, categorized) ==
    IF i > Len(svcs) THEN categorized
    ELSE LET cat == categorize_service(svcs[i])
         IN  CategorizeLoop(svcs, i + 1,
                 [categorized EXCEPT ![cat] = Append(@, svcs[i])])

Categorized(svcs) ==
    CategorizeLoop(svcs, 1,
        [cat \in { CATEGORY_ORDER[i] : i \in 1..Len(CATEGORY_ORDER) } |-> << >>])

\* the truth value of a field: '' and None are falsy
Truthy(v) == v # << >> /\ v # Null

\* lines 183-192: the item of one record; target, content and method are
\* sliced only `if svc.get(...)`, period and phone fall back through `or`
Item(svc) ==
    [name    |-> Get(svc, "name"),
     org     |-> Get(svc, "org_name"),
     target  |-> IF Truthy(Get(svc, "target"))
                 THEN Truncate(Get(svc, "target"), MAX_TARGET) ELSE << >>,
     content |-> IF Truthy(Get(svc, "content"))
                 THEN Truncate(Get(svc, "content"), MAX_CONTENT) ELSE << >>,
     method  |-> IF Truthy(Get(svc, "method"))
                 THEN Truncate(Get(svc, "method"), MAX_METHOD) ELSE << >>,
     period  |-> IF Truthy(Get(svc, "period")) THEN Get(svc, "period") ELSE ALWAYS_OPEN,
     url     |-> Get(svc, "url"),
     phone   |-> IF Truthy(Get(svc, "phone")) THEN Get(svc, "phone") ELSE << >>]

\* json_data with 'count' taken from the capped list
JsonDataCountsItems(svcs) ==
    LET categorized == Categorized(svcs)
    IN  [total |-> Len(svcs),
         cats  |-> [cat \in DOMAIN categorized |->
                       LET cat_services == Truncate(categorized[cat], MAX_ITEMS)
                       IN  [count |-> Len(cat_services),
                            items |-> [k \in 1..Len(cat_services) |->
                                          Item(cat_services[k])]]]]

\* lines 173-197: json_data, less the update time
JsonData(svcs) ==
    LET categorized == Categorized(svcs)
    IN  [total |-> Len(svcs),
         cats  |-> [cat \in DOMAIN categorized |->
                       LET cat_services == Truncate(categorized[cat], MAX_ITEMS)
                       IN  [count |-> Len(categorized[cat]),
                            items |-> [k \in 1..Len(cat_services) |->
                                          Item(cat_services[k])]]]]

\* the document: the fixed template around DATA and ORDER (lines 203-502)
generate_html(svcs) ==
    [doc |-> "page", DATA |-> JsonData(svcs), ORDER |-> CATEGORY_ORDER]

(***************************************************************************)
(* create_thumbnail, upload_media, post_to_wordpress, main                 *)
(***************************************************************************)
MAIN_MAX_PAGES   == 15    \* line 652
POST_CATEGORY_ID == 139   \* line 702
MEDIA_ID         == "7"   \* an id the site gives an uploaded image

INDEX_HTML    == "index.html"      \* lines 615 and 677
THUMBNAIL_PNG == "thumbnail.png"   \* line 682

\* lines 689-693: the post body, an iframe on the hosted page
IFRAME_CONTENT == [doc |-> "iframe"]

\* os.path.exists, for the files this run may write
FileExists(f) == \E i \in 1..Len(writes) : writes[i].file = f

\* the content a file holds: that of the last write to it
FileContent(f) ==
    LET last == CHOOSE i \in 1..Len(writes) :
                    /\ writes[i].file = f
                    /\ \A j \in (i + 1)..Len(writes) : writes[j].file # f
    IN  writes[last].content

\* the gate with the site URL left out
CredentialsWithoutUrl == WP_USER # "" /\ WP_APP_PASSWORD # ""

\* lines 586 and 614: all([WP_URL, WP_USER, WP_APP_PASSWORD])
CredentialsPresent == WP_URL # "" /\ WP_USER # "" /\ WP_APP_PASSWORD # ""

\* lines 656-661: filter, and return when nothing is left
NothingLeftNever == FALSE

NothingLeft == services' = << >>

MainFilter ==
    /\ run = "main"
    /\ pc = "fetched"
    /\ services' = filter_local_services(all_services)
    /\ IF NothingLeft THEN pc' = "done" ELSE pc' = "render"
    /\ UNCHANGED <<run, catVars, filterVars, pageVars, envVars, fetchVars, html_content,
                   thumb_made, thumb_path, upload_result, thumb_id, published, post_calls,
                   worldVars>>

\* line 674
MainGenerateHtml ==
    /\ run = "main"
    /\ pc = "render"
    /\ html_content' = generate_html(services)
    /\ pc' = "save"
    /\ UNCHANGED <<run, catVars, filterVars, pageVars, envVars, fetchVars, services,
                   thumb_made, thumb_path, upload_result, thumb_id, published, post_calls,
                   worldVars>>

\* lines 677-678
MainSaveIndex ==
    /\ run = "main"
    /\ pc = "save"
    /\ writes' = Append(writes, [file |-> INDEX_HTML, content |-> html_content])
    /\ pc' = "thumbnail"
    /\ UNCHANGED <<run, catVars, filterVars, pageVars, envVars, fetchVars, mainVars, http>>

\* lines 507-581 called from line 682, then line 696.  The host decides how
\* the call ends: the import of line 510 raises ImportError (lines 511-513),
\* or a truetype call of lines 532-535 raises (lines 536-538), or the image
\* is drawn and saved and its path returned (lines 579-581)
create_thumbnail ==
    /\ run = "main"
    /\ pc = "thumbnail"
    /\ \/ thumb_made' = "no-pillow" /\ thumb_path' = None /\ UNCHANGED writes
       \/ thumb_made' = "no-font" /\ thumb_path' = None /\ UNCHANGED writes
       \/ /\ thumb_made' = "saved"
          /\ writes' = Append(writes, [file |-> THUMBNAIL_PNG, content |-> [doc |-> "png"]])
          /\ thumb_path' = THUMBNAIL_PNG
    /\ thumb_id' = None
    /\ pc' = "upload"
    /\ UNCHANGED <<run, catVars, filterVars, pageVars, envVars, fetchVars, services, html_content,
                   upload_result, published, post_calls, http>>

\* the guard of the upload always taken
UploadAlways == TRUE

\* line 697: thumb_path and os.path.exists(thumb_path)
UploadWanted == thumb_path # None /\ FileExists(thumb_path)

\* line 697 false: the upload is skipped
MainSkipUpload ==
    /\ run = "main"
    /\ pc = "upload"
    /\ ~ UploadWanted
    /\ pc' = "post"
    /\ UNCHANGED <<run, catVars, filterVars, pageVars, pipeVars>>

\* lines 584-609 called from line 698
upload_media ==
    /\ run = "main"
    /\ pc = "upload"
    /\ UploadWanted
    /\ IF ~ CredentialsPresent
       THEN upload_result' = <<None, None>> /\ UNCHANGED http
       ELSE /\ http' = Append(http, [req |-> "POST media", arg |-> thumb_path])
            /\ \/ upload_result' = <<MEDIA_ID, "source_url">>   \* line 606
               \/ upload_result' = <<None, None>>               \* lines 607-609
    /\ thumb_id' = IF upload_result'[1] = None THEN None ELSE upload_result'[1]
    /\ pc' = "post"
    /\ UNCHANGED <<run, catVars, filterVars, pageVars, envVars, fetchVars, services, html_content,
                   thumb_made, thumb_path, published, post_calls, writes>>

\* lines 612-644 called from line 702
post_to_wordpress ==
    /\ run = "main"
    /\ pc = "post"
    /\ post_calls' = Append(post_calls,
           [title_count |-> Len(services), content |-> IFRAME_CONTENT,
            category_id |-> POST_CATEGORY_ID, thumbnail_id |-> thumb_id])
    /\ IF ~ CredentialsPresent
       THEN /\ writes' = Append(writes, [file |-> INDEX_HTML, content |-> IFRAME_CONTENT])
            /\ published' = "False"
            /\ UNCHANGED http
       ELSE /\ http' = Append(http, [req |-> "POST posts", arg |-> thumb_id])
            /\ published' \in {"True", "False"}
            /\ UNCHANGED writes
    /\ pc' = "done"
    /\ UNCHANGED <<run, catVars, filterVars, pageVars, envVars, fetchVars, services, html_content,
                   thumb_made, thumb_path, upload_result, thumb_id>>

(***************************************************************************)
(* Spec: one run of main                                                   *)
(***************************************************************************)
WP_URLS          == {"", "https://yeojugoodnews.com"}
WP_USERS         == {"", "editor"}
WP_APP_PASSWORDS == {"", "app-password"}

Init ==
    /\ run = "main"
    /\ pc = "call_fetch_all"
    /\ CategorizeIdle /\ FilterIdle /\ PageIdle
    /\ API_KEY \in API_KEYS
    /\ WP_URL \in WP_URLS
    /\ WP_USER \in WP_USERS
    /\ WP_APP_PASSWORD \in WP_APP_PASSWORDS
    /\ max_pages = MAIN_MAX_PAGES
    /\ page = 0 /\ result = << >> /\ all_services = << >> /\ returned = << >>
    /\ services = << >> /\ html_content = NoDocument /\ thumb_made = None /\ thumb_path = None
    /\ upload_result = NotCalled /\ thumb_id = None /\ published = None
    /\ post_calls = << >>
    /\ http = << >> /\ writes = << >>

\* LoopExhausted is no step of this run: a page that leaves the count below a
\* totalCount of at most MaxTotal adds a record, so the loop ends before page
\* MAIN_MAX_PAGES.
Next ==
    \/ FetchAllStart
    \/ FetchNoKey
    \/ FetchFails
    \/ FetchAnswers
    \/ LoopBody
    \/ MainFilter
    \/ MainGenerateHtml
    \/ MainSaveIndex
    \/ create_thumbnail
    \/ MainSkipUpload
    \/ upload_media
    \/ post_to_wordpress

Spec == Init /\ [][Next]_vars

(***************************************************************************)
(* The script of the rendered page (lines 375-500).  A handler runs to its *)
(* end before the next event is taken.  The scrollIntoView of line 395     *)
(* moves the viewport and changes none of the classes.                     *)
(***************************************************************************)
MaxCards == 1   \* a category of the page's DATA holds at most this many items

ORDER == CATEGORY_ORDER   \* line 378

OrderSet == { ORDER[i] : i \in 1..Len(ORDER) }

\* lines 492-499: init(), run when the script loads.  renderTabs (399-416)
\* builds one .tab per entry of ORDER; renderContents (418-490) one .content
\* per entry, the one of index 0 of class active, holding one .card per item;
\* line 496 marks the first .tab of the document active
init ==
    /\ run = "page"
    /\ pc = "script"
    /\ currentTab' = ORDER[1]
    /\ dom_tabs' = ORDER
    /\ dom_contents' = ORDER
    /\ content_active' = { ORDER[idx] : idx \in {i \in 1..Len(ORDER) : i = 1} }
    /\ dom_cards' = UNION { { <<ORDER[i], k>> : k \in 1..DATA[ORDER[i]] } :
                            i \in 1..Len(ORDER) }
    /\ card_open' = {}
    /\ tab_active' = { dom_tabs'[1] }
    /\ last_click' = [NoClick EXCEPT !.op = "init"]
    /\ pc' = "ready"
    /\ UNCHANGED <<run, catVars, filterVars, pipeVars, DATA, clicked_tab>>

\* the handler that marks the clicked tab and panel and clears no other
switchTabKeepingOthers(tabId) ==
    /\ run = "page"
    /\ pc = "ready"
    /\ currentTab' = tabId
    /\ tab_active' = tab_active \cup {tabId}
    /\ content_active' = content_active \cup {tabId}
    /\ clicked_tab' = tabId
    /\ last_click' = [NoClick EXCEPT !.op = "switchTab", !.tab = tabId]
    /\ UNCHANGED <<run, pc, catVars, filterVars, pipeVars, DATA, dom_tabs, dom_contents,
                   dom_cards, card_open>>

\* lines 382-388: switchTab(tabId), the onclick of the tab of that data-id
switchTab(tabId) ==
    /\ run = "page"
    /\ pc = "ready"
    /\ currentTab' = tabId
    /\ tab_active' = (tab_active \ { dom_tabs[i] : i \in 1..Len(dom_tabs) }) \cup {tabId}
    /\ content_active' =
           (content_active \ { dom_contents[i] : i \in 1..Len(dom_contents) }) \cup {tabId}
    /\ clicked_tab' = tabId
    /\ last_click' = [NoClick EXCEPT !.op = "switchTab", !.tab = tabId]
    /\ UNCHANGED <<run, pc, catVars, filterVars, pipeVars, DATA, dom_tabs, dom_contents,
                   dom_cards, card_open>>

\* the handler that toggles the clicked card and closes no other
toggleCardAlone(card) ==
    /\ run = "page"
    /\ pc = "ready"
    /\ LET wasOpen == card \in card_open
       IN  /\ card_open' = IF wasOpen THEN card_open \ {card} ELSE card_open \cup {card}
           /\ last_click' = [NoClick EXCEPT !.op = "toggleCard", !.card = card,
                                            !.wasOpen = wasOpen,
                                            !.others = card_open \ {card}]
    /\ UNCHANGED <<run, pc, catVars, filterVars, pipeVars, DATA, currentTab, dom_tabs,
                   dom_contents, tab_active, content_active, dom_cards, clicked_tab>>

\* lines 390-397: toggleCard(card), the onclick of a card
toggleCard(card) ==
    /\ run = "page"
    /\ pc = "ready"
    /\ LET wasOpen == card \in card_open
           closed  == card_open \ { c \in dom_cards : c \in card_open }
       IN  /\ card_open' = IF ~ wasOpen THEN closed \cup {card} ELSE closed
           /\ last_click' = [NoClick EXCEPT !.op = "toggleCard", !.card = card,
                                            !.wasOpen = wasOpen,
                                            !.others = card_open \ {card}]
    /\ UNCHANGED <<run, pc, catVars, filterVars, pipeVars, DATA, currentTab, dom_tabs,
                   dom_contents, tab_active, content_active, dom_cards, clicked_tab>>

\* lines 363-364 and 407: every tab is shown and can be clicked
ClickTab == \E i \in 1..Len(dom_tabs) : switchTab(dom_tabs[i])

\* lines 363-364 and 445: a card can be clicked when its panel is displayed,
\* that is, of class active
ClickCard == \E card \in dom_cards : card[1] \in content_active /\ toggleCard(card)

(***************************************************************************)
(* SpecPage: the page loads and is clicked on                              *)
(***************************************************************************)
InitPage ==
    /\ run = "page"
    /\ pc = "script"
    /\ CategorizeIdle /\ FilterIdle /\ PipelineIdle
    /\ DATA \in [OrderSet -> 0..MaxCards]
    /\ currentTab = None
    /\ dom_tabs = << >> /\ dom_contents = << >>
    /\ tab_active = {} /\ content_active = {}
    /\ dom_cards = {} /\ card_open = {}
    /\ clicked_tab = None /\ last_click = NoClick

NextPage ==
    \/ init
    \/ ClickTab
    \/ ClickCard

SpecPage == InitPage /\ [][NextPage]_vars

(***************************************************************************)
(* SpecRender: generate_html applied to one sequence                       *)
(***************************************************************************)
MaxRecords == 17   \* generate_html is given at most this many records

\* the names of a youth, a senior and an uncategorized programme
RenderNames == { EXAMPLE_NAME, <<"no", "in">>, <<"geum">> }

\* record number i of the input: its detail URL tells it from the others
RenderRecord(nm, i) ==
    [name |-> nm, org_name |-> YEOJU_CITY_HALL, url |-> <<ToString(i)>>]

\* n1 records named a, then n2 named b, then n3 named a again
RenderInput(a, b, n1, n2, n3) ==
    [i \in 1..(n1 + n2 + n3) |->
        RenderRecord(IF i <= n1 \/ i > n1 + n2 THEN a ELSE b, i)]

InitRender ==
    /\ run = "generate_html"
    /\ pc = "call"
    /\ CategorizeIdle /\ FilterIdle /\ PageIdle
    /\ API_KEY = "" /\ WP_URL = "" /\ WP_USER = "" /\ WP_APP_PASSWORD = ""
    /\ max_pages = 0 /\ page = 0 /\ result = << >> /\ all_services = << >>
    /\ returned = << >>
    /\ \E a \in RenderNames : \E b \in RenderNames \ {a} :
           \E n1 \in 0..MaxRecords : \E n2 \in 0..(MaxRecords - n1) :
               \E n3 \in 0..(MaxRecords - n1 - n2) :
                   services = RenderInput(a, b, n1, n2, n3)
    /\ html_content = NoDocument /\ thumb_made = None /\ thumb_path = None
    /\ upload_result = NotCalled /\ thumb_id = None /\ published = None
    /\ post_calls = << >>
    /\ http = << >> /\ writes = << >>

GenerateHtml ==
    /\ run = "generate_html"
    /\ pc = "call"
    /\ html_content' = generate_html(services)
    /\ pc' = "return"
    /\ UNCHANGED <<run, catVars, filterVars, pageVars, envVars, fetchVars, services,
                   thumb_made, thumb_path, upload_result, thumb_id, published,
                   post_calls, worldVars>>

NextRender == GenerateHtml

SpecRender == InitRender /\ [][NextRender]_vars

(***************************************************************************)
(* SpecRecords: filter_local_services, then generate_html (which calls     *)
(* categorize_service), on records that lack fields or hold '' or null     *)
(***************************************************************************)
MaxMalformed == 2

\* the values one field of a record of the response can hold
OrgNameValues == { YEOJU_CITY_HALL, << >>, Absent, Null }
OrgTypeValues == { CENTRAL_GOV, Null }
NameValues    == { EXAMPLE_NAME, Null }
TargetValues  == { Absent, Null }

MalformedRecords ==
    { MakeRecord([name |-> n, target |-> t, org_name |-> o, org_type |-> ty]) :
        n \in NameValues, t \in TargetValues, o \in OrgNameValues, ty \in OrgTypeValues }

InitRecords ==
    /\ run = "records"
    /\ pc = "call"
    /\ CategorizeIdle /\ FilterIdle /\ PageIdle
    /\ API_KEY = "" /\ WP_URL = "" /\ WP_USER = "" /\ WP_APP_PASSWORD = ""
    /\ max_pages = 0 /\ page = 0 /\ result = << >>
    /\ \E n \in 0..MaxMalformed : all_services \in [1..n -> MalformedRecords]
    /\ returned = << >>
    /\ services = << >>
    /\ html_content = NoDocument /\ thumb_made = None /\ thumb_path = None
    /\ upload_result = NotCalled /\ thumb_id = None /\ published = None
    /\ post_calls = << >>
    /\ http = << >> /\ writes = << >>

\* line 656: services = filter_local_services(all_services); an exception
\* raised inside is caught nowhere and ends the run
RecordsFilter ==
    /\ run = "records" /\ pc = "call"
    /\ IF FilterLoopRaises(all_services)
       THEN pc' = "raised" /\ services' = services
       ELSE pc' = "filtered" /\ services' = filter_local_services(all_services)
    /\ UNCHANGED <<run, catVars, filterVars, envVars, fetchVars, worldVars, pageVars,
                   html_content, thumb_made, thumb_path, upload_result, thumb_id,
                   published, post_calls>>

\* line 674: html_content = generate_html(services)
RecordsGenerateHtml ==
    /\ run = "records" /\ pc = "filtered"
    /\ html_content' = generate_html(services)
    /\ pc' = "rendered"
    /\ UNCHANGED <<run, catVars, filterVars, envVars, fetchVars, worldVars, pageVars,
                   services, thumb_made, thumb_path, upload_result, thumb_id,
                   published, post_calls>>

NextRecords == RecordsFilter \/ RecordsGenerateHtml

SpecRecords == InitRecords /\ [][NextRecords]_vars

(***************************************************************************)
(* Claims about categorize_service                                         *)
(***************************************************************************)
CategoryIds == { CATEGORIES[i].id : i \in 1..Len(CATEGORIES) }

KeywordsOf(id) ==
    LET i == CHOOSE j \in 1..Len(CATEGORIES) : CATEGORIES[j].id = id
    IN  { CATEGORIES[i].keywords[k] : k \in 1..Len(CATEGORIES[i].keywords) }

\* service name, target and content joined by single blanks
ClaimText(svc) ==
    Get(svc, "name") \o <<" ">> \o Get(svc, "target") \o <<" ">> \o Get(svc, "content")

HasKeywordOf(id, text) == \E kw \in KeywordsOf(id) : IsSubstring(kw, text)

\* C2: categorize_service returns a key of the category table, and it returns
\* 'etc' if and only if no keyword of a category other than 'etc' is a
\* substring of the name, target and content joined by single blanks.
C2_KeyOfTableAndEtcIffNoKeyword ==
    (run = "categorize_service" /\ pc = "return") =>
        /\ cat_id \in CategoryIds
        /\ cat_id = "etc" <=>
               ~ \E id \in CategoryIds \ {"etc"} : HasKeywordOf(id, ClaimText(service))

\* C2 witness: "cheong" ends the name and "nyeon" is the target, so the keyword
\* "cheong nyeon" is broken by the blank between the fields; the result is 'etc'.
C2_Witness ==
    /\ run = "categorize_service" /\ pc = "return"
    /\ cat_id = "etc"
    /\ Get(service, "name") = <<"geum", "cheong">>
    /\ Get(service, "target") = <<"nyeon">>
    /\ Get(service, "content") = << >>

DeclaredOrder == <<"youth", "senior", "family", "disabled", "lowincome", "business">>

MatchingRanks(text) == { r \in 1..Len(DeclaredOrder) : HasKeywordOf(DeclaredOrder[r], text) }

\* C3: when the search text holds keywords of one or more categories, the
\* result is the one that comes first in the order youth, senior, family,
\* disabled, lowincome, business; a text holding the business keyword
\* "chang eop ji won" is youth, and so is the record of the scenario.
C3_FirstInDeclaredOrder ==
    (run = "categorize_service" /\ pc = "return") =>
        LET text  == ClaimText(service)
            ranks == MatchingRanks(text)
        IN  /\ ranks # {} =>
                   /\ cat_id \in { DeclaredOrder[r] : r \in ranks }
                   /\ \A r \in ranks : DeclaredOrder[r] = cat_id => \A q \in ranks : r <= q
            /\ IsSubstring(<<"chang", "eop", "ji", "won">>, text) => cat_id = "youth"
            /\ (/\ Get(service, "name") = EXAMPLE_NAME
                /\ Get(service, "target") = << >>
                /\ Get(service, "content") = << >>) => cat_id = "youth"

\* C3 witness: the text holds keywords of youth, of senior and of business,
\* and the call has returned.
C3_Witness ==
    /\ run = "categorize_service" /\ pc = "return"
    /\ cat_id = "youth"
    /\ Cardinality(MatchingRanks(ClaimText(service))) >= 3
    /\ IsSubstring(<<"chang", "eop", "ji", "won">>, ClaimText(service))

(***************************************************************************)
(* Claim about filter_local_services                                       *)
(***************************************************************************)
\* the claim's three rules, as one disjunction
ClaimKept(svc) ==
    \/ IsSubstring(<<"yeo", "ju">>, Get(svc, "org_name"))
    \/ IsSubstring(<<"gyeong", "gi", "do">>, Get(svc, "org_name"))
    \/ Get(svc, "org_type") = <<"jung", "ang", "haeng", "jeong", "gi", "gwan">>
    \/ Get(svc, "org_type") = <<"gong", "gong", "gi", "gwan">>

\* C4: the result is the subsequence of the input at exactly the positions
\* whose record satisfies one of the three rules: as many entries as there
\* are such positions, the k-th entry being the record at the k-th of them.
C4_ExactSubsequenceInOrder ==
    (run = "filter_local_services" /\ pc = "return") =>
        LET keep   == { i \in 1..Len(svc_in) : ClaimKept(svc_in[i]) }
            Kth(k) == CHOOSE i \in keep : Cardinality({ j \in keep : j < i }) = k - 1
        IN  /\ Len(svc_out) = Cardinality(keep)
            /\ \A k \in 1..Len(svc_out) : svc_out[k] = svc_in[Kth(k)]

\* C4 witness: a record that satisfies all three rules follows one that
\* satisfies none, and the result is the former alone.
C4_Witness ==
    /\ run = "filter_local_services" /\ pc = "return"
    /\ Len(svc_in) = 2
    /\ ~ ClaimKept(svc_in[1])
    /\ IsSubstring(<<"yeo", "ju">>, Get(svc_in[2], "org_name"))
    /\ IsSubstring(<<"gyeong", "gi", "do">>, Get(svc_in[2], "org_name"))
    /\ Get(svc_in[2], "org_type") = <<"jung", "ang", "haeng", "jeong", "gi", "gwan">>
    /\ svc_out = <<svc_in[2]>>

(***************************************************************************)
(* Claims about the publisher                                              *)
(***************************************************************************)
MissingCredential == WP_URL = "" \/ WP_USER = "" \/ WP_APP_PASSWORD = ""

Requests(kind) == { i \in 1..Len(http) : http[i].req = kind }

\* C1: with at least one of the site URL, the user name and the application
\* password empty, post_to_wordpress has written the body it was given to
\* index.html as the last thing written, returned False and sent no request;
\* upload_media has returned (None, None) and sent no request.
C1_NoCredentialNoRequest ==
    (run = "main" /\ MissingCredential) =>
        /\ Requests("POST posts") = {}
        /\ Requests("POST media") = {}
        /\ upload_result # NotCalled => upload_result = <<None, None>>
        /\ post_calls # << >> =>
               /\ published = "False"
               /\ writes # << >>
               /\ writes[Len(writes)] =
                      [file |-> "index.html", content |-> post_calls[Len(post_calls)].content]

\* C1 witness: only the application password is empty, the thumbnail was made,
\* and both upload_media and post_to_wordpress have returned.
C1_Witness ==
    /\ run = "main" /\ pc = "done"
    /\ WP_URL # "" /\ WP_USER # "" /\ WP_APP_PASSWORD = ""
    /\ upload_result = <<None, None>>
    /\ published = "False"
    /\ Len(post_calls) = 1

(***************************************************************************)
(* Claim about fetch_all_services                                          *)
(***************************************************************************)
HasData(res) == "data" \in DOMAIN res

RECURSIVE DataOf(_)
DataOf(results) ==
    IF results = << >> THEN << >>
    ELSE (IF HasData(Head(results)) THEN Head(results).data ELSE << >>)
         \o DataOf(Tail(results))

\* the totalCount a response reports, 0 when it reports none
Reported(res) == IF "totalCount" \in DOMAIN res THEN res.totalCount ELSE 0

\* page k is one after which paging is to stop
StopsAt(k) ==
    \/ k = max_pages
    \/ /\ HasData(returned[k])
       /\ \/ returned[k].data = << >>
          \/ Len(DataOf(SubSeq(returned, 1, k))) >= Reported(returned[k])

\* C5: the requests are for pages 1, 2, ... in this order, each answered
\* before the next is sent, and never more than max_pages of them; a page
\* that was followed by another request had data, was not empty, left the
\* count below its totalCount and was not page max_pages; when the call has
\* returned, the last page is one paging stops at or one that failed, and the
\* result is the data of the pages in page order.
C5_ConsecutivePagesUntilStop ==
    run = "fetch_all_services" =>
        /\ \A i \in 1..Len(http) : http[i] = [req |-> "GET serviceList", arg |-> i]
        /\ Len(http) <= max_pages
        /\ API_KEY # "" => Len(http) = Len(returned)
        /\ API_KEY = "" => Len(http) = 0
        /\ \A k \in 1..(Len(http) - 1) : HasData(returned[k]) /\ ~ StopsAt(k)
        /\ (pc = "fetched" /\ API_KEY # "") =>
               /\ Len(returned) >= 1
               /\ StopsAt(Len(returned)) \/ ~ HasData(returned[Len(returned)])
        /\ pc = "fetched" => all_services = DataOf(returned)

\* C5 witness: two pages were fetched, the first left the count below its
\* totalCount, the second reached it, and the call returned both pages' data.
C5_Witness ==
    /\ run = "fetch_all_services" /\ pc = "fetched"
    /\ Len(http) = 2
    /\ max_pages > 1
    /\ Len(returned[1].data) < Reported(returned[1])
    /\ Len(all_services) = 2
    /\ all_services = returned[1].data \o returned[2].data

\* C12: a page whose request failed, or whose response has no 'data', is
\* the last page asked for: no request follows it and none is repeated; the
\* call goes on to return, and returns the data of the pages before it.
C12_FailedPageEndsPaging ==
    run = "fetch_all_services" =>
        /\ \A i \in 1..Len(http) : \A j \in 1..Len(http) :
               http[i].arg = http[j].arg => i = j
        /\ \A k \in 1..Len(returned) :
               ~ HasData(returned[k]) =>
                   /\ k = Len(returned)
                   /\ Len(http) <= k
                   /\ pc \in {"got_page", "fetched"}
                   /\ pc = "got_page" => ENABLED LoopBody
                   /\ all_services = DataOf(SubSeq(returned, 1, k - 1))

\* C12 witness: page 1 brought a record and left the count below its
\* totalCount, the request for page 2 failed, and the call returned the
\* record of page 1 though max_pages allowed a third page.
C12_Witness ==
    /\ run = "fetch_all_services" /\ pc = "fetched"
    /\ max_pages = 3
    /\ Len(http) = 2
    /\ Len(returned) = 2
    /\ HasData(returned[1])
    /\ Len(returned[1].data) = 1
    /\ Reported(returned[1]) > 1
    /\ DOMAIN returned[2] = {}
    /\ all_services = returned[1].data

(***************************************************************************)
(* Claims about main                                                       *)
(***************************************************************************)
\* C6: when main has ended with no record left after the filter, no document
\* was rendered, no file written, no thumbnail made, and no upload or post
\* attempted; a run without API key ends so, having sent no request at all.
C6_NothingLeftEndsEarly ==
    run = "main" =>
        /\ (pc \notin {"call_fetch_all", "loop", "got_page", "fetched"} /\ services = << >>) =>
               /\ pc = "done"
               /\ html_content = NoDocument
               /\ writes = << >>
               /\ thumb_made = None
               /\ upload_result = NotCalled
               /\ post_calls = << >>
               /\ Requests("POST media") = {} /\ Requests("POST posts") = {}
        /\ (pc = "done" /\ API_KEY = "") => services = << >> /\ http = << >>

\* C6 witness: records were fetched, none passed the filter, and main ended.
C6_Witness ==
    /\ run = "main" /\ pc = "done"
    /\ all_services # << >>
    /\ services = << >>

\* C7: with a credential missing and a record left after the filter, at the
\* end of the run index.html holds the document generate_html returned.
C7_IndexHoldsRenderedDocument ==
    (run = "main" /\ pc = "done" /\ MissingCredential /\ services # << >>) =>
        /\ FileExists("index.html")
        /\ FileContent("index.html") = html_content

\* C8: when create_thumbnail ended without Pillow or without a font, it
\* returned None; main goes on from every position up to its end, never calls
\* upload_media, and ends having called post_to_wordpress exactly once, with
\* no thumbnail id.
C8_NoThumbnailStillPublishes ==
    (run = "main" /\ thumb_made \in {"no-pillow", "no-font"}) =>
        /\ thumb_path = None
        /\ upload_result = NotCalled
        /\ Requests("POST media") = {}
        /\ pc \in {"upload", "post", "done"}
        /\ pc = "upload" => ENABLED MainSkipUpload
        /\ pc = "post" => ENABLED post_to_wordpress
        /\ pc # "done" => post_calls = << >>
        /\ pc = "done" => Len(post_calls) = 1 /\ post_calls[1].thumbnail_id = None

\* C8 witness: a font was missing, the credentials are all there, and the run
\* ended with the post published.
C8_Witness ==
    /\ run = "main" /\ pc = "done"
    /\ thumb_made = "no-font"
    /\ ~ MissingCredential
    /\ published = "True"
    /\ Requests("POST posts") # {}

(***************************************************************************)
(* Claims about the page                                                   *)
(***************************************************************************)
\* C9: once init has run, exactly one panel and exactly one tab are active,
\* both of the same category: the first of the declared order until a tab is
\* clicked, the tab last clicked after that, whatever cards were clicked.
C9_OneActiveTabAndPanel ==
    (run = "page" /\ pc = "ready") =>
        LET shown == IF clicked_tab = None THEN "youth" ELSE clicked_tab
        IN  /\ Cardinality(content_active) = 1
            /\ Cardinality(tab_active) = 1
            /\ content_active = {shown}
            /\ tab_active = {shown}

\* C9 witness: a tab other than the first was clicked, then a card of its panel.
C9_Witness ==
    /\ run = "page" /\ pc = "ready"
    /\ clicked_tab = "family"
    /\ last_click.op = "toggleCard"
    /\ last_click.card[1] = "family"
    /\ content_active = {"family"}

\* C10: at most one card of the page is open; a click on a closed card leaves
\* that card alone open, a click on the open card leaves none open.
C10_AtMostOneCardOpen ==
    (run = "page" /\ pc = "ready") =>
        /\ Cardinality(card_open) <= 1
        /\ last_click.op = "toggleCard" =>
               card_open = IF last_click.wasOpen THEN {} ELSE {last_click.card}

\* C10 witness: a card of a hidden panel was open when a closed card of the
\* displayed panel was clicked, and the clicked card alone is open.
C10_Witness ==
    /\ run = "page" /\ pc = "ready"
    /\ last_click.op = "toggleCard"
    /\ ~ last_click.wasOpen
    /\ \E c \in last_click.others : c[1] \notin content_active
    /\ card_open = {last_click.card}

(***************************************************************************)
(* Claim about generate_html                                               *)
(***************************************************************************)
AllCategoryIds == {"youth", "senior", "family", "disabled", "lowincome", "business", "etc"}

\* the positions of the input whose record is assigned to cat
PositionsOf(cat) == { i \in 1..Len(services) : categorize_service(services[i]) = cat }

\* the k-th smallest element of a set of positions
KthOf(S, k) == CHOOSE i \in S : Cardinality({ j \in S : j < i }) = k - 1

\* C11: the items of each category are at most 15, namely the first 15
\* records of that category in input order; its 'count' is the number of all
\* records assigned to it; the counts of the seven categories add up to the
\* number of input records.
C11_ItemsCappedCountsFull ==
    (run = "generate_html" /\ pc = "return") =>
        LET cats == html_content.DATA.cats
        IN  /\ DOMAIN cats = AllCategoryIds
            /\ \A cat \in AllCategoryIds :
                   LET S     == PositionsOf(cat)
                       items == cats[cat].items
                   IN  /\ Len(items) <= 15
                       /\ Len(items) = IF Cardinality(S) < 15 THEN Cardinality(S) ELSE 15
                       /\ \A k \in 1..Len(items) :
                              /\ items[k].url = services[KthOf(S, k)].url
                              /\ items[k].name = services[KthOf(S, k)].name
                       /\ cats[cat].count = Cardinality(S)
            /\ cats["youth"].count + cats["senior"].count + cats["family"].count
               + cats["disabled"].count + cats["lowincome"].count
               + cats["business"].count + cats["etc"].count = Len(services)

\* C11 witness: sixteen youth records with one uncategorized record among
\* them; the youth items are the first fifteen and the youth count is sixteen.
C11_Witness ==
    /\ run = "generate_html" /\ pc = "return"
    /\ Len(services) = 17
    /\ html_content.DATA.cats["youth"].count = 16
    /\ Len(html_content.DATA.cats["youth"].items) = 15
    /\ html_content.DATA.cats["etc"].count = 1
    /\ categorize_service(services[1]) = "youth"
    /\ categorize_service(services[17]) = "youth"

(***************************************************************************)
(* Claims about malformed records                                          *)
(***************************************************************************)
\* the record with every null field replaced by ''
EmptyForNull(svc) == [k \in DOMAIN svc |-> IF svc[k] = Null THEN << >> ELSE svc[k]]

KeptReadingEmpty(svc) == is_local(EmptyForNull(svc))

CountReadingEmpty(svcs, cat) ==
    Cardinality({ i \in 1..Len(svcs) : categorize_service(EmptyForNull(svcs[i])) = cat })

\* C13: a record with a field absent, '' or null never aborts the run: the
\* filter never raises and keeps exactly the records it keeps when the field
\* is read as '', and the rendered document counts every kept record in the
\* category it has when the field is read as ''.
C13_MalformedFieldNeverAborts ==
    run = "records" =>
        /\ pc # "raised"
        /\ pc \in {"filtered", "rendered"} =>
               services = SelectSeq(all_services, KeptReadingEmpty)
        /\ pc = "rendered" =>
               \A cat \in AllCategoryIds :
                   html_content.DATA.cats[cat].count = CountReadingEmpty(services, cat)

====
